---- MODULE Spec2Model ----
(***************************************************************************)
(* The eclipse widget of src/index.tsx: the App component's three pieces   *)
(* of React state (progress, playing, story), the requestAnimationFrame    *)
(* loop that advances progress, the three user controls and the one-shot   *)
(* narrative fetch.                                                        *)
(*                                                                         *)
(* Numbers.  Progress is a real number in the source and frame timestamps *)
(* are milliseconds with a fractional part.  The model's clock counts      *)
(* ticks of 1/64 ms and progress is an integer number of 5e-9 units (Scale *)
(* units = 1.0).  baseSpeed = 32e-6 per ms and the multipliers are 15, 45  *)
(* and 100 hundredths, so a frame adds dt * multiplier units exactly; the  *)
(* scrubber's 1e-6 grid, the jump targets i/5 and the thresholds 0.01 and  *)
(* 0.12 are whole numbers of units too.  Floating-point rounding is not    *)
(* modelled.                                                               *)
(*                                                                         *)
(* React.  A setState made in a frame callback is queued on the default    *)
(* lane and rendered by a later task; a setState made in a click or input  *)
(* handler is rendered synchronously, effects included, before the handler *)
(* task ends, and that render skips queued default-lane updates.  The      *)
(* variables progress, playing and story hold the state with every queued  *)
(* update applied; loopProgress, loopPlaying and shown hold what the last  *)
(* committed render saw, which is what the registered loop closure and the *)
(* screen use.                                                             *)
(***************************************************************************)
EXTENDS Integers, Sequences, FiniteSets, TLC

VARIABLES
    progress,      \* useState(0) of line 63, queued updates applied
    playing,       \* useState(true) of line 64
    story,         \* useState(DEFAULT_STORY) of line 62, queued update applied
    lastTimeRef,   \* lastTimeRef.current
    loopProgress,  \* progress as captured by the registered loop closure
    loopPlaying,   \* playing as captured by the registered loop closure
    shown,         \* story as seen by the last committed render
    screen,        \* the narrative block painted by the last committed render
    fetchState,    \* where fetchPoetry stands
    faulted,       \* a render threw and React unmounted the tree
    mounted,       \* the App component is in the tree
    registered,    \* number of animation-frame callbacks requested and due
    clock,         \* timestamp of the latest animation frame
    frames,        \* number of frame callbacks so far
    op,            \* the step taken last
    held,          \* the explicit write in force since the last toggle
    idle,          \* paused frame callbacks since the last playing one
    resumedAfter   \* value of idle when the latest playing callback fired

vars == <<progress, playing, story, lastTimeRef, loopProgress, loopPlaying,
          shown, screen, fetchState, faulted, clock, frames, op, held,
          idle, resumedAfter, mounted, registered>>

----------------------------------------------------------------------------
(* Bounds of the model *)

MaxFrames == 3

----------------------------------------------------------------------------
(* Program constants *)

PHASES == <<"before", "first_contact", "during_peak", "totality",
            "return_of_light", "afterglow">>

NumPhases == Len(PHASES)

Scale == 200000000

TicksPerMs == 64

ScrubSteps == 1000000

BaseSpeed == 32

Rate == (BaseSpeed * (Scale \div 1000000)) \div (TicksPerMs * 100)

NearBand == Scale \div 100

SlowBand == 12 * (Scale \div 100)

TotalitySpeed == 15

SlowSpeed == 45

FullSpeed == 100

----------------------------------------------------------------------------
(* Inputs *)

DisplayFrame == 16 * TicksPerMs

DtValues == {0, 1, 16 * TicksPerMs, 40000 * TicksPerMs}

ScrubValues == {0, 166666, 166667, 489900, 500000, 999999, 1000000}

TeardownDtValues == {DisplayFrame, 40000 * TicksPerMs}

TeardownScrubValues == {500000}

StoryDtValues == {40000 * TicksPerMs}

(* Elapsed times of a running animation whose frames keep coming: each     *)
(* increment is below the width of one phase                               *)
PlayDtValues == {500 * TicksPerMs, 1000 * TicksPerMs}

----------------------------------------------------------------------------
(* Arithmetic of the source *)

Abs(x) == IF x < 0 THEN -x ELSE x

Min(a, b) == IF a < b THEN a ELSE b

JsRemOnce(a, n) == IF a >= n THEN a - n ELSE a

JsRem(a, n) == IF a >= 0 THEN a % n ELSE -((-a) % n)

currentIdxRounded(p) ==
    Min((p * NumPhases + Scale \div 2) \div Scale, NumPhases - 1)

currentIdx(p) == Min((p * NumPhases) \div Scale, NumPhases - 1)

currentPhase(p) == PHASES[currentIdx(p) + 1]

proximitySigned(p) == (Scale \div 2) - p

proximity(p) == Abs((Scale \div 2) - p)

speedMultiplierStopsAtTotality(prox) ==
    IF prox < NearBand THEN 0
    ELSE IF prox < SlowBand THEN SlowSpeed ELSE FullSpeed

speedMultiplier(prox) ==
    IF prox < NearBand THEN TotalitySpeed
    ELSE IF prox < SlowBand THEN SlowSpeed ELSE FullSpeed

Advance(p, dt, mult) == JsRem(p + dt * Rate * mult, Scale)

ScrubValue(k) == k * (Scale \div ScrubSteps)

JumpValue(i) == (i * Scale) \div (NumPhases - 1)

----------------------------------------------------------------------------
(* JavaScript values of the narrative table.  A text is a sequence of      *)
(* lexemes, with "," and " " lexemes of their own so that split(',') and   *)
(* trim() can be computed.                                                 *)

PhaseSet == {PHASES[i] : i \in 1..NumPhases}

Str(s) == [t |-> "string", s |-> s]

Undefined == [t |-> "undefined", s |-> <<>>]

NumberValue == [t |-> "number", s |-> <<"7">>]

ObjectValue == [t |-> "object", s |-> <<>>]

Truthy(v) ==
    \/ v.t = "string" /\ v.s # <<>>
    \/ v.t \in {"number", "object"}

Entry(s, f, r) == [t |-> "object", sentence |-> s, feeling |-> f, reflection |-> r]

NonObjectEntry(type) ==
    [t |-> type, sentence |-> Undefined, feeling |-> Undefined, reflection |-> Undefined]

DEFAULT_ENTRIES ==
    [ph \in PhaseSet |->
       CASE ph = "before" ->
              Entry(Str(<<"Ibiza pulses with a warm, expectant glow.">>),
                    Str(<<"Quiet", ",", " ", "Solar">>),
                    Str(<<"What intentions are you carrying into the shadow?">>))
         [] ph = "first_contact" ->
              Entry(Str(<<"A cosmic bite begins the silent transformation.">>),
                    Str(<<"Shift", ",", " ", "Breath">>),
                    Str(<<"Can you feel the air cooling on your skin?">>))
         [] ph = "during_peak" ->
              Entry(Str(<<"Surreal silver light washes over the Mediterranean.">>),
                    Str(<<"Ethereal", ",", " ", "Gold">>),
                    Str(<<"Who is sharing this half-lit world with you?">>))
         [] ph = "totality" ->
              Entry(Str(<<"The universe holds its breath in a ring of fire.">>),
                    Str(<<"Infinite", ",", " ", "Absolute">>),
                    Str(<<"When the sun vanishes, what truth remains?">>))
         [] ph = "return_of_light" ->
              Entry(Str(<<"A diamond spark heralds the second dawn.">>),
                    Str(<<"Birth", ",", " ", "Clarity">>),
                    Str(<<"What will you build with this restored light?">>))
         [] OTHER ->
              Entry(Str(<<"The shadow leaves a golden mark upon the soul.">>),
                    Str(<<"Presence", ",", " ", "Awake">>),
                    Str(<<"How will you speak of this to the future?">>))]

ObjectStory(o) == [t |-> "object", o |-> o]

NonObjectStory(type) == [t |-> type, o |-> [ph \in {} |-> NonObjectEntry("null")]]

DEFAULT_STORY == ObjectStory(DEFAULT_ENTRIES)

(* story[currentPhase]: a property read of a parsed JSON value *)
Lookup(st, ph) ==
    IF st.t = "object" /\ ph \in DOMAIN st.o THEN st.o[ph]
    ELSE NonObjectEntry("undefined")

LookupThrows(st) == st.t \in {"null", "undefined"}

TruthyEntry(e) == e.t \in {"object", "string", "number"}

activeDataNoFallback(st, ph) == Lookup(st, ph)

activeData(st, ph) ==
    IF TruthyEntry(Lookup(st, ph)) THEN Lookup(st, ph) ELSE DEFAULT_ENTRIES[ph]

(* {activeData?.sentence}: React renders strings and numbers, skips        *)
(* undefined and null, and throws on a plain object                        *)
ChildThrows(v) == v.t = "object"

ChildText(v) == IF v.t \in {"string", "number"} THEN v.s ELSE <<>>

(* (activeData?.feeling || "").split(',').filter(Boolean).map(f => f.trim()) *)
SplitThrows(v) == Truthy(v) /\ v.t # "string"

RECURSIVE Split(_, _)
Split(s, cur) ==
    IF s = <<>> THEN <<cur>>
    ELSE IF Head(s) = "," THEN <<cur>> \o Split(Tail(s), <<>>)
    ELSE Split(Tail(s), Append(cur, Head(s)))

RECURSIVE FilterBoolean(_)
FilterBoolean(parts) ==
    IF parts = <<>> THEN <<>>
    ELSE IF Head(parts) = <<>> THEN FilterBoolean(Tail(parts))
    ELSE <<Head(parts)>> \o FilterBoolean(Tail(parts))

RECURSIVE TrimStart(_)
TrimStart(s) == IF s # <<>> /\ Head(s) = " " THEN TrimStart(Tail(s)) ELSE s

RECURSIVE TrimEnd(_)
TrimEnd(s) ==
    IF s # <<>> /\ s[Len(s)] = " " THEN TrimEnd(SubSeq(s, 1, Len(s) - 1)) ELSE s

Trim(s) == TrimEnd(TrimStart(s))

Chips(v) ==
    LET parts == FilterBoolean(Split(IF Truthy(v) THEN v.s ELSE <<>>, <<>>))
    IN  [i \in 1..Len(parts) |-> Trim(parts[i])]

(* One pass of App's render body for progress p and table st *)
RenderThrows(st, p) ==
    \/ LookupThrows(st)
    \/ ChildThrows(activeData(st, currentPhase(p)).sentence)
    \/ SplitThrows(activeData(st, currentPhase(p)).feeling)
    \/ ChildThrows(activeData(st, currentPhase(p)).reflection)

Screen(st, ph) ==
    [phase      |-> ph,
     sentence   |-> ChildText(activeData(st, ph).sentence),
     chips      |-> Chips(activeData(st, ph).feeling),
     reflection |-> ChildText(activeData(st, ph).reflection)]

Unmounted == [phase |-> "", sentence |-> <<>>, chips |-> <<>>, reflection |-> <<>>]

----------------------------------------------------------------------------
(* Texts the narrative request can come back with *)

FetchedEntry(ph) ==
    Entry(Str(<<ph>>), Str(<<"New", ",", "Mood">>), Str(<<"Fetched?">>))

MalformedEntries ==
    { Entry(Str(<<"no feeling">>), Undefined, Str(<<"?">>)),
      Entry(Str(<<"numeric feeling">>), NumberValue, Str(<<"?">>)),
      Entry(ObjectValue, Str(<<"Odd">>), Str(<<"?">>)),
      NonObjectEntry("null") }

PartialStories ==
    { ObjectStory([ph \in S |-> FetchedEntry(ph)]) : S \in SUBSET PhaseSet }

MalformedStories ==
    { ObjectStory([ph \in PhaseSet |-> IF ph = bad THEN e ELSE FetchedEntry(ph)]) :
        bad \in PhaseSet, e \in MalformedEntries }

NonObjectStories == { NonObjectStory(type) : type \in {"null", "number", "array"} }

Responses ==
    { [kind |-> "empty", value |-> NonObjectStory("undefined")],
      [kind |-> "unparseable", value |-> NonObjectStory("undefined")] }
    \cup { [kind |-> "json", value |-> v] :
             v \in PartialStories \cup MalformedStories \cup NonObjectStories }

TeardownResponses ==
    { [kind |-> "empty", value |-> NonObjectStory("undefined")],
      [kind |-> "unparseable", value |-> NonObjectStory("undefined")],
      [kind |-> "json", value |-> NonObjectStory("null")],
      [kind |-> "json", value |-> ObjectStory([ph \in PhaseSet |-> FetchedEntry(ph)])] }

----------------------------------------------------------------------------
(* State after the first render and its effects *)

NoWrite == [kind |-> "none", arg |-> 0]

Init ==
    /\ progress = 0
    /\ playing = TRUE
    /\ story = DEFAULT_STORY
    /\ lastTimeRef = 0
    /\ loopProgress = 0
    /\ loopPlaying = TRUE
    /\ shown = DEFAULT_STORY
    /\ screen = Screen(DEFAULT_STORY, currentPhase(0))
    /\ fetchState = "start"
    /\ faulted = FALSE
    /\ mounted = TRUE
    /\ registered = 1
    /\ clock = 0
    /\ frames = 0
    /\ op = "mount"
    /\ held = NoWrite
    /\ idle = 0
    /\ resumedAfter = 0

FrameBaselineWhilePlaying(t) ==
    /\ mounted
    /\ registered > 0
    /\ frames < MaxFrames
    /\ t >= clock
    /\ loopProgress # progress => t - clock <= DisplayFrame
    /\ clock' = t
    /\ lastTimeRef' = IF loopPlaying THEN t ELSE lastTimeRef
    /\ progress' =
         IF loopPlaying
         THEN Advance(progress, t - lastTimeRef, speedMultiplier(proximity(loopProgress)))
         ELSE progress
    /\ frames' = frames + 1
    /\ idle' = IF loopPlaying THEN 0 ELSE idle + 1
    /\ resumedAfter' = IF loopPlaying THEN idle ELSE 0
    /\ registered' = (registered - 1) + 1
    /\ op' = "frame"
    /\ UNCHANGED <<playing, story, loopProgress, loopPlaying, shown, screen,
                   fetchState, faulted, mounted, held>>

(* loop(t): one animation-frame callback of the registered closure, which  *)
(* reads playing and progress as captured by the render that registered it *)
(* and queues the functional update of progress.  The render of a queued   *)
(* update is a ready task, so the frame that finds it still queued is the  *)
(* next display frame, not one a long gap later.                           *)
Frame(t) ==
    /\ mounted
    /\ registered > 0
    /\ frames < MaxFrames
    /\ t >= clock
    /\ loopProgress # progress => t - clock <= DisplayFrame
    /\ clock' = t
    /\ lastTimeRef' = t
    /\ progress' =
         IF loopPlaying
         THEN Advance(progress, t - lastTimeRef, speedMultiplier(proximity(loopProgress)))
         ELSE progress
    /\ frames' = frames + 1
    /\ idle' = IF loopPlaying THEN 0 ELSE idle + 1
    /\ resumedAfter' = IF loopPlaying THEN idle ELSE 0
    /\ registered' = (registered - 1) + 1
    /\ op' = "frame"
    /\ UNCHANGED <<playing, story, loopProgress, loopPlaying, shown, screen,
                   fetchState, faulted, mounted, held>>

(* cancelAnimationFrame(frame): the callback, if still due, is dropped *)
Cancel(n) == IF n > 0 THEN n - 1 ELSE 0

CommitKeepsOldFrame(st, p, q) ==
    IF RenderThrows(st, p)
    THEN /\ faulted' = TRUE
         /\ mounted' = FALSE
         /\ registered' = Cancel(registered)
         /\ screen' = Unmounted
         /\ UNCHANGED <<loopProgress, loopPlaying, shown>>
    ELSE /\ faulted' = FALSE
         /\ mounted' = TRUE
         /\ registered' =
              IF p # loopProgress \/ q # loopPlaying
              THEN registered + 1 ELSE registered
         /\ screen' = Screen(st, currentPhase(p))
         /\ loopProgress' = p
         /\ loopPlaying' = q
         /\ shown' = st

(* What a commit of the render of table st at progress p with playing q    *)
(* leaves behind: the painted block and, when playing or progress changed, *)
(* the effect's clean-up of the due callback and the registration of the   *)
(* new loop closure; an exception thrown by the render body unmounts the   *)
(* tree, which runs the clean-up alone.                                    *)
Commit(st, p, q) ==
    IF RenderThrows(st, p)
    THEN /\ faulted' = TRUE
         /\ mounted' = FALSE
         /\ registered' = Cancel(registered)
         /\ screen' = Unmounted
         /\ UNCHANGED <<loopProgress, loopPlaying, shown>>
    ELSE /\ faulted' = FALSE
         /\ mounted' = TRUE
         /\ registered' =
              IF p # loopProgress \/ q # loopPlaying
              THEN Cancel(registered) + 1 ELSE registered
         /\ screen' = Screen(st, currentPhase(p))
         /\ loopProgress' = p
         /\ loopPlaying' = q
         /\ shown' = st

(* The render React schedules for queued default-lane updates *)
Render ==
    /\ mounted
    /\ loopProgress # progress \/ loopPlaying # playing \/ shown # story
    /\ Commit(story, progress, playing)
    /\ op' = "render"
    /\ UNCHANGED <<progress, playing, story, lastTimeRef, fetchState, clock,
                   frames, held, idle, resumedAfter>>

ScrubKeepsPlaying(k) ==
    /\ mounted
    /\ progress' = ScrubValue(k)
    /\ playing' = playing
    /\ Commit(shown, ScrubValue(k), playing)
    /\ held' = [kind |-> "scrub", arg |-> k]
    /\ op' = "scrub"
    /\ UNCHANGED <<story, lastTimeRef, fetchState, clock, frames, idle,
                   resumedAfter>>

(* onInput of the range input at slider position k of 0..ScrubSteps; the   *)
(* write is rendered synchronously and that render skips a queued setStory *)
Scrub(k) ==
    /\ mounted
    /\ progress' = ScrubValue(k)
    /\ playing' = FALSE
    /\ Commit(shown, ScrubValue(k), FALSE)
    /\ held' = [kind |-> "scrub", arg |-> k]
    /\ op' = "scrub"
    /\ UNCHANGED <<story, lastTimeRef, fetchState, clock, frames, idle,
                   resumedAfter>>

(* onClick of phase button i, rendered synchronously like a scrub *)
Jump(i) ==
    /\ mounted
    /\ progress' = JumpValue(i)
    /\ playing' = FALSE
    /\ Commit(shown, JumpValue(i), FALSE)
    /\ held' = [kind |-> "jump", arg |-> i]
    /\ op' = "jump"
    /\ UNCHANGED <<story, lastTimeRef, fetchState, clock, frames, idle,
                   resumedAfter>>

(* onClick of the play/pause button: setPlaying(!playing), rendered        *)
(* synchronously at the committed progress; a progress update queued by a  *)
(* frame callback stays queued.                                            *)
Toggle ==
    /\ mounted
    /\ playing' = ~loopPlaying
    /\ Commit(shown, loopProgress, ~loopPlaying)
    /\ held' = NoWrite
    /\ op' = "toggle"
    /\ UNCHANGED <<progress, story, lastTimeRef, fetchState, clock, frames,
                   idle, resumedAfter>>

(* The host removes the component from the tree: the effect's clean-up    *)
(* cancels the due callback, and the state and the handlers go with it.    *)
Teardown ==
    /\ mounted
    /\ mounted' = FALSE
    /\ registered' = Cancel(registered)
    /\ screen' = Unmounted
    /\ op' = "teardown"
    /\ UNCHANGED <<progress, playing, story, lastTimeRef, loopProgress,
                   loopPlaying, shown, fetchState, faulted, clock, frames,
                   held, idle, resumedAfter>>

(* fetchPoetry: no API key, return before anything is requested *)
FetchSkip ==
    /\ fetchState = "start"
    /\ fetchState' = "skipped"
    /\ op' = "fetch"
    /\ UNCHANGED <<progress, playing, story, lastTimeRef, loopProgress,
                   loopPlaying, shown, screen, faulted, clock, frames, held,
                   idle, resumedAfter, mounted,
                   registered>>

(* fetchPoetry: the request is made and awaited *)
FetchSend ==
    /\ fetchState = "start"
    /\ fetchState' = "inflight"
    /\ op' = "fetch"
    /\ UNCHANGED <<progress, playing, story, lastTimeRef, loopProgress,
                   loopPlaying, shown, screen, faulted, clock, frames, held,
                   idle, resumedAfter, mounted,
                   registered>>

FetchFailClears ==
    /\ fetchState = "inflight"
    /\ fetchState' = "failed"
    /\ story' = IF ~mounted THEN story ELSE ObjectStory([ph \in {} |-> NonObjectEntry("null")])
    /\ op' = "fetch"
    /\ UNCHANGED <<progress, playing, lastTimeRef, loopProgress, loopPlaying,
                   shown, screen, faulted, clock, frames, held, idle,
                   resumedAfter, mounted,
                   registered>>

(* fetchPoetry: the client or the request throws; the catch block logs *)
FetchFail ==
    /\ fetchState = "inflight"
    /\ fetchState' = "failed"
    /\ op' = "fetch"
    /\ UNCHANGED <<progress, playing, story, lastTimeRef, loopProgress,
                   loopPlaying, shown, screen, faulted, clock, frames, held,
                   idle, resumedAfter, mounted,
                   registered>>

(* fetchPoetry: the awaited response r arrives *)
FetchReceive(r) ==
    /\ fetchState = "inflight"
    /\ fetchState' =
         CASE r.kind = "empty" -> "ignored"
           [] r.kind = "unparseable" -> "unparseable"
           [] OTHER -> "applied"
    /\ story' = IF r.kind = "json" /\ mounted THEN r.value ELSE story
    /\ op' = "fetch"
    /\ UNCHANGED <<progress, playing, lastTimeRef, loopProgress, loopPlaying,
                   shown, screen, faulted, clock, frames, held, idle,
                   resumedAfter, mounted,
                   registered>>

(* The animation: every control and frame gap, the narrative request     *)
(* still to be evaluated                                                   *)
Next ==
    \/ \E d \in DtValues : Frame(clock + d)
    \/ Render
    \/ \E k \in ScrubValues : Scrub(k)
    \/ \E i \in 0..(NumPhases - 1) : Jump(i)
    \/ Toggle

Spec == Init /\ [][Next]_vars

(* The narrative request with every response, and the controls and       *)
(* frames that bring each phase on screen                                  *)
NextStory ==
    \/ \E d \in StoryDtValues : Frame(clock + d)
    \/ Render
    \/ \E i \in 0..(NumPhases - 1) : Jump(i)
    \/ Toggle
    \/ FetchSkip
    \/ FetchSend
    \/ FetchFail
    \/ \E r \in Responses : FetchReceive(r)

SpecStory == Init /\ [][NextStory]_vars

(* Teardown at any moment of the animation and of the narrative request *)
NextTeardown ==
    \/ \E d \in TeardownDtValues : Frame(clock + d)
    \/ Render
    \/ \E k \in TeardownScrubValues : Scrub(k)
    \/ \E i \in 0..(NumPhases - 1) : Jump(i)
    \/ Toggle
    \/ Teardown
    \/ FetchSkip
    \/ FetchSend
    \/ FetchFail
    \/ \E r \in TeardownResponses : FetchReceive(r)

SpecTeardown == Init /\ [][NextTeardown]_vars

(* loop reads its timestamp only through t - lastTimeRef.current, so the   *)
(* origin of the time axis is moved to the present once MaxFrames frames   *)
(* have been counted from it                                               *)
Rebase ==
    /\ mounted
    /\ frames = MaxFrames
    /\ clock' = 0
    /\ lastTimeRef' = lastTimeRef - clock
    /\ frames' = 0
    /\ UNCHANGED <<progress, playing, story, loopProgress, loopPlaying, shown,
                   screen, fetchState, faulted, mounted, registered, op, held,
                   idle, resumedAfter>>

(* The animation left playing: no control is touched *)
NextPlay ==
    \/ \E d \in PlayDtValues : Frame(clock + d)
    \/ Render
    \/ Rebase

(* A render is scheduled: an update is queued on the mounted component *)
RenderDue ==
    /\ mounted
    /\ loopProgress # progress \/ loopPlaying # playing \/ shown # story

(* The registered callback fires on a following display frame and the      *)
(* render React has scheduled is run: neither waits forever.  The weak     *)
(* fairness of Render is written out, with RenderDue for ENABLED of it.    *)
SpecPlay ==
    /\ Init
    /\ [][NextPlay]_vars
    /\ WF_vars(\E d \in PlayDtValues : Frame(clock + d))
    /\ WF_vars(Rebase)
    /\ ([]<>(~RenderDue) \/ []<><<Render>>_vars)

----------------------------------------------------------------------------
(* Properties of the animation, checked under Spec *)

Half == Scale \div 2

Distance(p) == IF p >= Half THEN p - Half ELSE Half - p

(* C1: in every reachable state Progress lies in [0, 1): it is never       *)
(* negative and never equal to or above 1.                                 *)
C1_ProgressInRange == progress >= 0 /\ progress < Scale

(* C2: for Progress p in [0, 1) the phase index is the one i of 0..5 with  *)
(* i/6 <= p < (i+1)/6, for the queued and for the painted Progress alike:  *)
(* a step function of p that changes at multiples of 1/6 only, one phase   *)
(* active.                                                                 *)
C2_PhaseIndex ==
    \A p \in {progress, loopProgress} :
        (p >= 0 /\ p < Scale) =>
            /\ currentIdx(p) \in 0..(NumPhases - 1)
            /\ \A i \in 0..(NumPhases - 1) :
                 (currentIdx(p) = i) <=>
                    (i * Scale <= NumPhases * p /\ NumPhases * p < (i + 1) * Scale)
            /\ ~faulted => screen.phase = PHASES[currentIdx(loopProgress) + 1]

C2_Witness ==
    /\ op = "scrub"
    /\ held.arg = 166667
    /\ currentIdx(progress) = 1
    /\ screen.phase = "first_contact"

(* C3: a frame callback that fires while Playing is false leaves Progress  *)
(* unchanged, and one that fires while Playing is true advances it by the  *)
(* time elapsed since the latest frame callback, at one of the three       *)
(* speeds, whatever number of paused callbacks came before.                *)
C3_PauseFreezes ==
    [][op' = "frame" =>
         IF playing
         THEN \E m \in {TotalitySpeed, SlowSpeed, FullSpeed} :
                 progress' = (progress + (clock' - clock) * Rate * m) % Scale
         ELSE progress' = progress]_vars

C3_Witness ==
    /\ op = "frame"
    /\ playing
    /\ resumedAfter >= 2
    /\ clock = 2 * 40000 * TicksPerMs + 16 * TicksPerMs
    /\ progress = JumpValue(1) + 16 * TicksPerMs * Rate * FullSpeed

(* C4: from an explicit write until the next use of the play/pause toggle  *)
(* Progress is exactly the written value (slider position k/1000000, or    *)
(* i/5 for phase button i), Playing is false and the write is what is on   *)
(* screen, whatever frame callbacks fire in between.                       *)
C4_WriteHolds ==
    /\ held.kind = "scrub" => progress = held.arg * (Scale \div 1000000)
    /\ held.kind = "jump" => progress * (NumPhases - 1) = held.arg * Scale
    /\ held.kind # "none" =>
         /\ ~playing
         /\ ~faulted => (loopProgress = progress /\ ~loopPlaying)

C4_Witness ==
    /\ op = "frame"
    /\ frames = MaxFrames
    /\ clock > 0
    /\ held = [kind |-> "scrub", arg |-> 489900]
    /\ progress = ScrubValue(489900)

(* C5: every frame callback that fires while Playing is true turns         *)
(* Progress p into (p + dt * baseSpeed * multiplier(p)) mod 1, with the    *)
(* multiplier of that same p.                                              *)
C5_FreshMultiplier ==
    [][(op' = "frame" /\ playing) =>
         progress' = (progress + (lastTimeRef' - lastTimeRef) * Rate
                                   * speedMultiplier(Distance(progress))) % Scale]_vars

(* C6 as stated: advancing Progress from 0.999999 by any positive         *)
(* increment yields a value in [0, increment), never negative and never 1  *)
(* or above.                                                               *)
C6_WrapBelowIncrement ==
    [][(op' = "frame" /\ playing /\ progress = ScrubValue(999999)
          /\ progress' # progress) =>
         LET inc == (lastTimeRef' - lastTimeRef) * Rate
                      * speedMultiplier(proximity(loopProgress))
         IN  progress' >= 0 /\ progress' < inc]_vars

(* C6 as amended: advancing Progress from 0.999999 by any positive         *)
(* increment yields a value in [0, 1), never negative; the value is in     *)
(* [0, increment) when the increment is at least 0.000001, and it is       *)
(* 0.999999 + increment, with no wrap, when the increment is smaller.      *)
C6_WrapInRange ==
    [][(op' = "frame" /\ playing /\ progress = ScrubValue(999999)
          /\ progress' # progress) =>
         LET inc == (lastTimeRef' - lastTimeRef) * Rate
                      * speedMultiplier(proximity(loopProgress))
         IN  /\ progress' >= 0 /\ progress' < Scale
             /\ inc >= Scale \div 1000000 => progress' < inc
             /\ inc < Scale \div 1000000 => progress' = progress + inc]_vars

C6_Witness ==
    /\ op = "frame"
    /\ playing
    /\ held.kind = "none"
    /\ frames = 1
    /\ progress = ScrubValue(999999) + DisplayFrame * Rate * FullSpeed - Scale

(* C7: the speed multiplier depends on the distance of Progress from 0.5   *)
(* only: it is the same at 0.5 + x and 0.5 - x, it is 0.15 below distance  *)
(* 0.01, 0.45 from there to below 0.12 and 1.0 from 0.12 on, and it never  *)
(* increases as the distance decreases.                                    *)
C7_Multiplier ==
    \A p \in {progress, loopProgress} :
        (p >= 0 /\ p <= Scale) =>
            LET m == speedMultiplier(proximity(p))
            IN  /\ m = speedMultiplier(proximity(Scale - p))
                /\ Distance(p) < Scale \div 100 => m = 15
                /\ (Distance(p) >= Scale \div 100 /\ Distance(p) < 12 * (Scale \div 100))
                      => m = 45
                /\ Distance(p) >= 12 * (Scale \div 100) => m = 100
                /\ \A k \in ScrubValues :
                     Distance(ScrubValue(k)) <= Distance(p) =>
                        speedMultiplier(proximity(ScrubValue(k))) <= m

C7_Witness ==
    /\ op = "frame"
    /\ playing
    /\ loopProgress = ScrubValue(500000)
    /\ progress = loopProgress + DisplayFrame * Rate * 15

----------------------------------------------------------------------------
(* Properties of the narrative, checked under SpecStory *)

WellFormed(e) ==
    /\ e.t = "object"
    /\ e.sentence.t = "string"
    /\ e.feeling.t = "string"
    /\ e.reflection.t = "string"

Mismatch(st) == st.t # "object" \/ \E ph \in DOMAIN st.o : ~WellFormed(st.o[ph])

(* The block an entry of two mood words puts on screen *)
Painted(ph, e) ==
    [phase      |-> ph,
     sentence   |-> e.sentence.s,
     chips      |-> << <<e.feeling.s[1]>>, <<e.feeling.s[Len(e.feeling.s)]>> >>,
     reflection |-> e.reflection.s]

(* C8: once the narrative fetch was skipped for want of a credential or    *)
(* failed with a transport or response error, the table is the built-in    *)
(* one in every later state, each of the six phases shows the built-in     *)
(* entry, and the step that skips or fails leaves Progress and Playing     *)
(* as they were.                                                           *)
C8_FailureKeepsDefaults ==
    /\ [](fetchState \in {"skipped", "failed"} =>
            /\ story = DEFAULT_STORY
            /\ shown = DEFAULT_STORY
            /\ ~faulted
            /\ screen = Painted(currentPhase(loopProgress),
                                DEFAULT_ENTRIES[currentPhase(loopProgress)])
            /\ \A ph \in PhaseSet : Screen(shown, ph) = Painted(ph, DEFAULT_ENTRIES[ph])
            /\ Screen(shown, "before").chips = << <<"Quiet">>, <<"Solar">> >>)
    /\ [][(fetchState' \in {"skipped", "failed"} /\ fetchState' # fetchState) =>
            UNCHANGED <<progress, playing, loopProgress, loopPlaying, lastTimeRef>>]_vars

C8_Witness ==
    /\ fetchState = "failed"
    /\ op = "jump"
    /\ frames > 0
    /\ screen.phase = "totality"
    /\ screen.sentence = <<"The universe holds its breath in a ring of fire.">>
    /\ screen.chips = << <<"Infinite">>, <<"Absolute">> >>

(* C9: after a response that does not match the schema (unparseable text,  *)
(* a JSON value that is not an object, a phase entry with a missing or     *)
(* non-string field) the built-in table is retained and no render faults,  *)
(* at whatever Progress the narrative is displayed.                        *)
C9_MismatchKeepsDefaults ==
    (fetchState = "unparseable" \/ (fetchState = "applied" /\ Mismatch(story))) =>
        (story = DEFAULT_STORY /\ shown = DEFAULT_STORY /\ ~faulted)

(* C10: a response that is an object of well-formed entries for any subset *)
(* of the six phase keys becomes the table as a whole in the step that     *)
(* receives it; no render faults afterwards, and once it is rendered each  *)
(* phase whose key is present shows the fetched entry and each phase whose *)
(* key is missing shows exactly the built-in entry.                        *)
C10_PartialFallsBack ==
    /\ []((fetchState = "applied" /\ ~Mismatch(story)) =>
            /\ ~faulted
            /\ shown \in {DEFAULT_STORY, story}
            /\ \A ph \in PhaseSet :
                 Screen(story, ph) =
                    IF ph \in DOMAIN story.o
                    THEN Painted(ph, FetchedEntry(ph))
                    ELSE Painted(ph, DEFAULT_ENTRIES[ph])
            /\ shown = story =>
                 screen = Screen(story, currentPhase(loopProgress)))
    /\ [][(fetchState' = "applied" /\ fetchState # "applied" /\ ~Mismatch(story')) =>
            /\ story = DEFAULT_STORY
            /\ \A ph \in DOMAIN story'.o : story'.o[ph] = FetchedEntry(ph)]_vars

C10_Witness ==
    /\ fetchState = "applied"
    /\ shown = story
    /\ story.t = "object"
    /\ DOMAIN story.o = PhaseSet \ {"totality", "before"}
    /\ screen = Painted("totality", DEFAULT_ENTRIES["totality"])
    /\ op = "jump"

----------------------------------------------------------------------------
(* Properties of teardown, checked under SpecTeardown *)

(* C11: at most one animation-frame callback is registered at any time,    *)
(* exactly one while the component is mounted and none once it is torn     *)
(* down; after teardown no frame callback fires, nothing is mounted again, *)
(* Progress, Playing and the table keep their values, and a narrative      *)
(* response that arrives then raises no fault.                             *)
C11_OneFrameNoneAfterTeardown ==
    /\ [](/\ registered <= 1
          /\ mounted => registered = 1
          /\ ~mounted => registered = 0)
    /\ [][~mounted =>
            /\ ~mounted'
            /\ op' # "frame"
            /\ registered' = 0
            /\ faulted' = faulted
            /\ UNCHANGED <<progress, playing, story, shown, screen,
                           lastTimeRef, frames>>]_vars

C11_Witness ==
    /\ ~mounted
    /\ ~faulted
    /\ op = "fetch"
    /\ fetchState = "applied"
    /\ story = DEFAULT_STORY
    /\ frames > 0
    /\ progress # loopProgress
    /\ registered = 0

----------------------------------------------------------------------------
(* Properties of the animation left playing, checked under SpecPlay *)

(* The way round the cycle from p to q *)
Forward(p, q) == JsRem((q - p) + Scale, Scale)

(* A frame callback that leaves Progress in phase i *)
Reaches(i) ==
    /\ frames' = frames + 1
    /\ currentIdx(progress') = i

(* A frame callback that carries Progress from the last phase over 1 *)
Wraps ==
    /\ frames' = frames + 1
    /\ currentIdx(progress) = NumPhases - 1
    /\ currentIdx(progress') = 0
    /\ progress' < progress

====
